---------------------------- MODULE Spec2Model ----------------------------
(***************************************************************************)
(* A model of reTokenizer: the driving loop Tokenizer.tokenize, the        *)
(* TokenizerResult accumulator, the token processors of tokenprocessors.py *)
(* and the merge of value processors.                                      *)
(*                                                                         *)
(* Text is a sequence of one-character strings.  Offsets are the 0-based   *)
(* offsets of the Python code: the character at offset i of content is     *)
(* content[i + 1].                                                         *)
(***************************************************************************)
EXTENDS Integers, Sequences, FiniteSets, TLC

(***************************************************************************)
(* Characters.                                                             *)
(***************************************************************************)
LF == "LF"
CR == "CR"
TAB == "TAB"
SP == "SP"
EOT == "EOT"    \* what At answers outside the text; never a character of it

Digits == {"0", "1", "2", "3", "4", "5", "6", "7", "8", "9"}
Letters == {"a", "b", "c", "d", "e", "f", "l", "r", "s", "t", "u", "x", "y", "T", "F"}
OperatorChars == {"+", "-", "/", "*", "="}

DigitVal(c) ==
    CASE c = "0" -> 0 [] c = "1" -> 1 [] c = "2" -> 2 [] c = "3" -> 3
      [] c = "4" -> 4 [] c = "5" -> 5 [] c = "6" -> 6 [] c = "7" -> 7
      [] c = "8" -> 8 [] c = "9" -> 9

Max(a, b) == IF a >= b THEN a ELSE b
Abs(a) == IF a >= 0 THEN a ELSE 0 - a

\* content[i] of the Python code, EOT when i is no index of content
At(content, i) ==
    IF i >= 0 /\ i < Len(content) THEN content[i + 1] ELSE EOT

\* content[from : to] of the Python code, for 0 <= from <= to <= len(content)
Slice(content, from, to) ==
    IF to <= from THEN << >> ELSE SubSeq(content, from + 1, to)

\* the length of the longest run of characters of S starting at offset i
RECURSIVE RunLen(_, _, _)
RunLen(content, i, S) ==
    IF At(content, i) \in S THEN 1 + RunLen(content, i + 1, S) ELSE 0

\* "no match" of a regular expression: re.match answered None
NoMatch == -1


(***************************************************************************)
(* Tokens (tokens.py).  A token is a record; id is the identity of the     *)
(* Python object (two tokens built by two constructor calls differ in id   *)
(* even when they are equal field by field).                               *)
(***************************************************************************)
NoValue == [n |-> 0, scale |-> 0, s |-> << >>]

Token(kind, id, text, type, value) ==
    [kind |-> kind, id |-> id, text |-> text, type |-> type, value |-> value]

\* the token of a (None, consumed) pair
NoToken == Token("None", 0, << >>, "", NoValue)

EndOfLineToken(id) == Token("EndOfLine", id, << >>, "", NoValue)
EndOfFileToken(id) == Token("EndOfFile", id, << >>, "", NoValue)
ScopeStartToken(id) == Token("ScopeStart", id, << >>, "", NoValue)
ScopeEndToken(id) == Token("ScopeEnd", id, << >>, "", NoValue)
CommentToken(id, text) == Token("Comment", id, text, "", NoValue)
ValueToken(id, type, value) == Token("Value", id, << >>, type, value)
SequenceToken(id, sequence) == Token("Sequence", id, sequence, "", NoValue)

\* isinstance(token, EndOfLineToken): EndOfFileToken is a subclass of it
IsEndOfLine(tok) == tok.kind \in {"EndOfLine", "EndOfFile"}

Pair(tok, consumed) == [tok |-> tok, consumed |-> consumed]

(***************************************************************************)
(* What one call of process hands to the loop: res is None (isNone), or    *)
(* the call raises, or it is the sequence of the pairs handed over.  made  *)
(* counts the token objects the call built.                                *)
(***************************************************************************)
ResNone == [isNone |-> TRUE, raise |-> "none", pairs |-> << >>, made |-> 0]
ResPairs(pairs, made) ==
    [isNone |-> FALSE, raise |-> "none", pairs |-> pairs, made |-> made]
ResRaise(what) == [isNone |-> FALSE, raise |-> what, pairs |-> << >>, made |-> 0]

\* the sum of the consumed lengths of pairs
RECURSIVE Consumed(_)
Consumed(pairs) ==
    IF pairs = << >> THEN 0 ELSE Head(pairs).consumed + Consumed(Tail(pairs))

(***************************************************************************)
(* The regular expressions, each as the end offset of re.match(content,    *)
(* pos) or NoMatch.                                                        *)
(***************************************************************************)
\* r"\r?\n"
NewLineEnd(content, offset) ==
    IF At(content, offset) = CR /\ At(content, offset + 1) = LF THEN offset + 2
    ELSE IF At(content, offset) = LF THEN offset + 1
    ELSE NoMatch

\* rf"({startCharacter})|({endCharacter})": the group that matched, 0 for none
ClassicScopeGroup(startCharacter, endCharacter, content, offset) ==
    IF At(content, offset) = startCharacter THEN 1
    ELSE IF At(content, offset) = endCharacter THEN 2
    ELSE 0

\* rf"{commentCharacter}(.+)": "." is any character but a line feed
CommentEnd(commentCharacter, content, offset) ==
    LET run == RunLen(content, offset + 1, (Digits \cup Letters \cup OperatorChars
                       \cup {CR, TAB, SP, "#", ".", "{", "}"}))
    IN IF At(content, offset) = commentCharacter /\ run >= 1
       THEN offset + 1 + run ELSE NoMatch

\* rf"[{toConsume}]+"
ConsumingEnd(toConsume, content, offset) ==
    LET run == RunLen(content, offset, toConsume)
    IN IF run >= 1 THEN offset + run ELSE NoMatch

\* r"([+\-/*=])(?:=|\1)?"
OperatorEnd(content, offset) ==
    LET c == At(content, offset)
        d == At(content, offset + 1)
    IN IF c \notin OperatorChars THEN NoMatch
       ELSE IF d = "=" \/ d = c THEN offset + 2
       ELSE offset + 1

\* r"-?\d*\.\d+"
FloatEnd(content, offset) ==
    LET o == IF At(content, offset) = "-" THEN offset + 1 ELSE offset
        k == RunLen(content, o, Digits)
        m == RunLen(content, o + k + 1, Digits)
    IN IF At(content, o + k) = "." /\ m >= 1 THEN o + k + 1 + m ELSE NoMatch

\* r"-?\d+"
IntEnd(content, offset) ==
    LET o == IF At(content, offset) = "-" THEN offset + 1 ELSE offset
        k == RunLen(content, o, Digits)
    IN IF k >= 1 THEN o + k ELSE NoMatch

\* r"[Tt]rue|[Ff]alse"
BoolEnd(content, offset) ==
    IF /\ At(content, offset) \in {"T", "t"}
       /\ offset + 4 <= Len(content)
       /\ Slice(content, offset + 1, offset + 4) = <<"r", "u", "e">>
    THEN offset + 4
    ELSE IF /\ At(content, offset) \in {"F", "f"}
            /\ offset + 5 <= Len(content)
            /\ Slice(content, offset + 1, offset + 5) = <<"a", "l", "s", "e">>
    THEN offset + 5
    ELSE NoMatch

\* r"\d": a one-digit expression of a caller's own value processor
DigitEnd(content, offset) ==
    IF At(content, offset) \in Digits THEN offset + 1 ELSE NoMatch

\* the end of one value expression, named by what it matches
ExpressionEnd(expression, content, offset) ==
    CASE expression = "float" -> FloatEnd(content, offset)
      [] expression = "int" -> IntEnd(content, offset)
      [] expression = "bool" -> BoolEnd(content, offset)
      [] expression = "digit" -> DigitEnd(content, offset)

(***************************************************************************)
(* The conversions of matched text to a value: the constructors a value    *)
(* processor calls.  A value is [n, scale, s]: the number n / 10^scale, or *)
(* the text s.                                                             *)
(***************************************************************************)
RECURSIVE DigitsValue(_)
DigitsValue(text) ==
    IF text = << >> THEN 0
    ELSE 10 * DigitsValue(SubSeq(text, 1, Len(text) - 1)) + DigitVal(text[Len(text)])

Unsigned(text) == IF text # << >> /\ text[1] = "-" THEN Tail(text) ELSE text
Sign(text) == IF text # << >> /\ text[1] = "-" THEN -1 ELSE 1

\* the offset of the "." of text, Len(text) when it has none
DotAt(text) == RunLen(text, 0, Digits)

\* int(text), for text of the form -?\d+ ; int raises ValueError on any other
IntRaises(text) ==
    LET u == Unsigned(text) IN u = << >> \/ RunLen(u, 0, Digits) # Len(u)

IntOf(text) == Sign(text) * DigitsValue(Unsigned(text))

\* a number without the trailing zeros of its fraction: 1.50 is 1.5
RECURSIVE Normal(_, _)
Normal(n, scale) ==
    IF scale > 0 /\ n % 10 = 0 THEN Normal(n \div 10, scale - 1)
    ELSE [n |-> n, scale |-> scale, s |-> << >>]

\* float(text), for text of the form -?\d*(\.\d+)?
FloatOf(text) ==
    LET u == Unsigned(text)
        d == DotAt(u)
        whole == Slice(u, 0, d)
        frac == Slice(u, d + 1, Len(u))
    IN Normal(Sign(text) * DigitsValue(whole \o frac), Len(frac))

\* str.lower
Lower(text) ==
    [i \in 1..Len(text) |->
        IF text[i] = "T" THEN "t" ELSE IF text[i] = "F" THEN "f" ELSE text[i]]

\* float raises ValueError on text that is not digits around at most one "."
FloatRaises(text) ==
    LET u == Unsigned(text)
        d == DotAt(u)
        rest == Slice(u, d, Len(u))
    IN \/ u = << >>
       \/ rest # << >> /\ rest[1] # "."
       \/ rest # << >> /\ RunLen(Tail(rest), 0, Digits) # Len(rest) - 1
       \/ d = 0 /\ Len(rest) <= 1

\* whether constructor(text) raises
ConstructorRaises(constructor, text) ==
    \/ constructor = "int" /\ IntRaises(text)
    \/ constructor = "float" /\ FloatRaises(text)

\* constructor(text): the type itself (int, float, bool, str) or the converter
\* of BooleanProcessor, lambda x: x.lower() == "true"
Construct(constructor, text) ==
    CASE constructor = "int" -> [n |-> IntOf(text), scale |-> 0, s |-> << >>]
      [] constructor = "float" -> FloatOf(text)
      [] constructor = "bool" ->
            [n |-> IF text # << >> THEN 1 ELSE 0, scale |-> 0, s |-> << >>]
      [] constructor = "str" -> [n |-> 0, scale |-> 0, s |-> text]
      [] constructor = "lowerIsTrue" ->
            [n |-> IF Lower(text) = <<"t", "r", "u", "e">> THEN 1 ELSE 0,
             scale |-> 0, s |-> << >>]

Types == {"int", "float", "bool", "str"}

\* a constructors dictionary: NoConstructor for a type that is no key of it
NoConstructor == "none"
EmptyConstructors == [tp \in Types |-> NoConstructor]

(***************************************************************************)
(* process of the stateless processors.  id is the identity the token the  *)
(* call builds gets.                                                       *)
(***************************************************************************)
NewLineProcess(content, offset, id) ==
    LET end == NewLineEnd(content, offset)
    IN IF end = NoMatch THEN ResNone
       ELSE ResPairs(<<Pair(EndOfLineToken(id), end - offset)>>, 1)

ClassicScopeProcess(startCharacter, endCharacter, content, offset, id) ==
    LET lastindex == ClassicScopeGroup(startCharacter, endCharacter, content, offset)
    IN IF lastindex = 0 THEN ResNone
       ELSE ResPairs(<<Pair(IF lastindex = 1 THEN ScopeStartToken(id)
                                             ELSE ScopeEndToken(id), 1)>>, 1)

CommentProcess(commentCharacter, content, offset, id) ==
    LET end == CommentEnd(commentCharacter, content, offset)
    IN IF end = NoMatch THEN ResNone
       ELSE ResPairs(<<Pair(CommentToken(id, Slice(content, offset + 1, end)),
                            end - offset)>>, 1)

ConsumingProcess(toConsume, content, offset) ==
    LET end == ConsumingEnd(toConsume, content, offset)
    IN IF end = NoMatch THEN ResNone
       ELSE ResPairs(<<Pair(NoToken, end - offset)>>, 0)

SequenceProcess(content, offset, id) ==
    LET end == OperatorEnd(content, offset)
    IN IF end = NoMatch THEN ResNone
       ELSE ResPairs(<<Pair(SequenceToken(id, Slice(content, offset, end)),
                            end - offset)>>, 1)

(***************************************************************************)
(* ValueProcessor.process.  expressions are the alternatives of the        *)
(* compiled regex, left to right, each one capturing group (every          *)
(* expression here has no group of its own and is wrapped by __init__);    *)
(* the first alternative that matches at offset wins and is lastindex.     *)
(***************************************************************************)
ValueLastIndex(expressions, content, offset) ==
    LET hits == {i \in 1..Len(expressions) :
                    ExpressionEnd(expressions[i], content, offset) # NoMatch}
    IN IF hits = {} THEN 0 ELSE CHOOSE i \in hits : \A j \in hits : i <= j

ValueProcess(expressions, types, constructors, content, offset, id) ==
    LET index == ValueLastIndex(expressions, content, offset)
    IN IF index = 0 THEN ResNone
       ELSE IF index > Len(types) THEN ResRaise("IndexError")
       ELSE LET tp == types[index]
                end == ExpressionEnd(expressions[index], content, offset)
                text == Slice(content, offset, end)
                constructor == IF constructors[tp] = NoConstructor
                               THEN tp ELSE constructors[tp]
            IN IF ConstructorRaises(constructor, text) THEN ResRaise("ValueError")
               ELSE ResPairs(<<Pair(ValueToken(id, tp, Construct(constructor, text)),
                                    end - offset)>>, 1)

(***************************************************************************)
(* IndentScopeProcessor.  Its fields are level, mode (NoMode for None,     *)
(* else the group 1 = tabs or 2 = spaces) and divider.                     *)
(***************************************************************************)
NoMode == 0
NoLevel == -1

\* reScope.match(content, pos=offset - 1): a negative pos is taken as 0
IndentStart(offset) == Max(offset - 1, 0)

\* the group of r"\n(\t+)|\n( +)|\n([^\t ])" that matched, 0 for no match
IndentGroup(content, offset) ==
    LET start == IndentStart(offset)
        c == At(content, start + 1)
    IN IF At(content, start) # LF \/ c = EOT THEN 0
       ELSE IF c = TAB THEN 1
       ELSE IF c = SP THEN 2
       ELSE 3

\* res.end()
IndentEnd(content, offset) ==
    LET start == IndentStart(offset)
        lastindex == IndentGroup(content, offset)
    IN CASE lastindex = 0 -> NoMatch
         [] lastindex = 1 -> start + 1 + RunLen(content, start + 1, {TAB})
         [] lastindex = 2 -> start + 1 + RunLen(content, start + 1, {SP})
         [] lastindex = 3 -> start + 2

\* IndentYields yielding its pair once however many units the level moved
IndentYieldsOnce(token, newLevel, count) ==
    IF count > 0 THEN <<Pair(token, newLevel)>> ELSE << >>

\* for i in range(difference // divider): yield token, newLevel
IndentYields(token, newLevel, count) ==
    [i \in 1..count |-> Pair(token, newLevel)]

(***************************************************************************)
(* IndentScopeProcessor.process, a generator: the pairs it yields, the     *)
(* error it raises instead, mode and divider as it leaves them, and in     *)
(* newLevel the level it assigns once the loop has taken its last pair     *)
(* (NoLevel when it assigns none).                                         *)
(***************************************************************************)
IndentResult(raise, pairs, made, mode, divider, newLevel) ==
    [isNone |-> FALSE, raise |-> raise, pairs |-> pairs, made |-> made,
     mode |-> mode, divider |-> divider, newLevel |-> newLevel]

IndentProcess(level, mode, divider, allowMixed, content, offset, id) ==
    LET lastindex == IndentGroup(content, offset)
        newLevel == IF lastindex = 3 THEN 0 ELSE IndentEnd(content, offset) - offset
        adopt == lastindex # 3 /\ mode = NoMode
        mode1 == IF adopt THEN lastindex ELSE mode
        divider1 == IF adopt THEN newLevel ELSE divider
        difference == Abs(level - newLevel)
    IN IF lastindex = 0
       THEN IndentResult("none", << >>, 0, mode, divider, NoLevel)
       ELSE IF lastindex # 3 /\ mode # NoMode /\ mode # lastindex
       THEN IndentResult("mixed indent", << >>, 0, mode, divider, NoLevel)
       ELSE IF newLevel # level
       THEN IF divider1 = 0
            THEN IndentResult("ZeroDivisionError", << >>, 0, mode1, divider1, NoLevel)
            ELSE IF difference % divider1 # 0
            THEN IndentResult("invalid indent multiply", << >>, 0,
                              mode1, divider1, NoLevel)
            ELSE IndentResult("none",
                              IndentYields(IF newLevel > level
                                           THEN ScopeStartToken(id)
                                           ELSE ScopeEndToken(id),
                                           newLevel, difference \div divider1),
                              1, mode1, divider1, newLevel)
       ELSE IF newLevel # 0
       THEN IndentResult("none", <<Pair(NoToken, newLevel)>>, 0,
                         IF allowMixed THEN NoMode ELSE mode1, divider1, NoLevel)
       ELSE IndentResult("none", << >>, 0, mode1, divider1, NoLevel)

\* IndentScopeProcessor.finalizer closing with a single ScopeEndToken
IndentFinalizerOnce(level, id) ==
    IF level > 0 THEN <<ScopeEndToken(id)>> ELSE << >>

\* IndentScopeProcessor.finalizer: one new ScopeEndToken per unit of level
IndentFinalizer(level, id) ==
    IF level > 0 THEN [i \in 1..level |-> ScopeEndToken(id + i - 1)] ELSE << >>

(***************************************************************************)
(* Processor instances, as the constructor arguments that tell them apart. *)
(***************************************************************************)
Processor(kind, allowMixed, toConsume, expressions, types, constructors) ==
    [kind |-> kind, allowMixed |-> allowMixed, toConsume |-> toConsume,
     expressions |-> expressions, types |-> types, constructors |-> constructors]

NewLineProcessor == Processor("NewLine", FALSE, {}, << >>, << >>, EmptyConstructors)
ClassicScopeProcessor ==
    Processor("ClassicScope", FALSE, {}, << >>, << >>, EmptyConstructors)
IndentScopeProcessor(allowMixed) ==
    Processor("IndentScope", allowMixed, {}, << >>, << >>, EmptyConstructors)
CommentProcessor == Processor("Comment", FALSE, {}, << >>, << >>, EmptyConstructors)
ConsumingProcessor(toConsume) ==
    Processor("Consuming", FALSE, toConsume, << >>, << >>, EmptyConstructors)
OperatorProcessor == Processor("Sequence", FALSE, {}, << >>, << >>, EmptyConstructors)

\* ValueProcessor.__init__: valueExpressions are (expression, type) pairs
ValueProcessor(valueExpressions, constructors) ==
    Processor("Value", FALSE, {},
              [i \in 1..Len(valueExpressions) |-> valueExpressions[i][1]],
              [i \in 1..Len(valueExpressions) |-> valueExpressions[i][2]],
              constructors)

NumberProcessor ==
    ValueProcessor(<< <<"float", "float">>, <<"int", "int">> >>, EmptyConstructors)
BooleanProcessor ==
    ValueProcessor(<< <<"bool", "bool">> >>,
                   [EmptyConstructors EXCEPT !["bool"] = "lowerIsTrue"])

(***************************************************************************)
(* The inputs: every text over Alphabet of at most MaxLen characters, the  *)
(* texts of the scenarios, and the processor lists tokenizers are built    *)
(* from.                                                                   *)
(***************************************************************************)
MaxLen == 4
Alphabet == {LF, SP, TAB, "x", "1"}

ScenarioSources ==
    { <<"1", "2", LF, "3", "4", ".", "5", LF>>,
      <<"a", LF, SP, SP, "b", LF, SP, SP, SP, SP, "c", LF, SP, SP, "d", LF>>,
      <<TAB, "x", LF, SP, SP, SP, SP, "y", LF>>,
      <<"1", "2", "#">>,
      <<LF, SP, LF, SP, SP, SP, "x", "x", "x">>,
      <<LF, SP, LF, SP, SP, SP>>,
      <<LF, SP, SP, LF, SP, SP, LF, SP, SP, SP>>,
      <<LF, SP, SP, LF, SP, SP, LF, TAB, "x", LF, SP, SP>>,
      <<"{", "x", "=", "=", "t", "r", "u", "e", "}", "#", "x", CR, LF>>,
      <<"-", ".", "5", "0", SP, "F", "a", "l", "s", "e", "+", "+">> }

Sources == UNION {[1..n -> Alphabet] : n \in 0..MaxLen} \cup ScenarioSources

White == ConsumingProcessor({SP, TAB})
Word == ConsumingProcessor(Letters)

Configurations ==
    << <<IndentScopeProcessor(FALSE), NewLineProcessor, Word>>,
       <<NewLineProcessor, IndentScopeProcessor(FALSE)>>,
       <<IndentScopeProcessor(TRUE), NewLineProcessor, Word>>,
       <<IndentScopeProcessor(FALSE), NewLineProcessor, Word, White>>,
       <<White, IndentScopeProcessor(FALSE), NewLineProcessor, Word>>,
       <<NumberProcessor, NewLineProcessor>>,
       <<NewLineProcessor, IndentScopeProcessor(TRUE), White, NumberProcessor>>,
       <<CommentProcessor, BooleanProcessor, NumberProcessor, OperatorProcessor,
         ClassicScopeProcessor, NewLineProcessor, White, Word>>,
       << >> >>

(***************************************************************************)
(* The state of one call of Tokenizer.tokenize and of the objects it uses. *)
(***************************************************************************)
VARIABLES
    source,      \* the text
    procs,       \* Tokenizer.__tokenProcessors
    pc,          \* where tokenize is: scan, apply, check, finalize, done, error
    pos,         \* the cursor
    processed,   \* the flag of the while loop
    idx,         \* the processor the for loop is at, 1..Len(procs) + 1
    anchor,      \* the offset the processor at idx was called with
    pending,     \* the pairs of res the inner loop has not taken yet
    tokens,      \* TokenizerResult.__tokens
    tokenMap,    \* TokenizerResult.__tokenMap, keyed by token identity
    nextId,      \* the identity the next token object gets
    level,       \* IndentScopeProcessor.__level
    mode,        \* IndentScopeProcessor.__mode
    divider,     \* IndentScopeProcessor.__divider
    genLevel,    \* newLevel of the suspended generator, NoLevel for none
    err,         \* the message of the error raised, "none" for none
    errPos,      \* the offset the error pointer is made for
    finalized,   \* the processors whose finalizer ran, in order
    steps,       \* history: one record per matched call of process
    run,         \* 1 in the first call of tokenize, 2 in a second one
    prev,        \* the outcome of the first call, for a second one
    objs,        \* the ValueProcessor objects built so far
    typeLists,   \* the list objects their __types fields refer to
    dicts,       \* the dict objects their __constructors fields refer to
    role         \* which object is A, B, C, A | B, (A | B) | C, B | C, A | (B | C)

tokVars == <<pos, processed, idx, anchor, pending, tokens, tokenMap, nextId,
             err, errPos, finalized, steps>>
indentVars == <<level, mode, divider, genLevel>>
mergeVars == <<objs, typeLists, dicts, role>>
vars == <<source, procs, pc, tokVars, indentVars, run, prev, mergeVars>>

NoOutcome == [pc |-> "none", err |-> "none", errPos |-> 0, tokens |-> << >>]

\* IndentScopeProcessor.__init__ and the locals of tokenize before its loop
InitLevel == 0
InitDivider == 0

TokenizeInit ==
    /\ pc = "scan"
    /\ pos = 0
    /\ processed = FALSE
    /\ idx = 1
    /\ anchor = 0
    /\ pending = << >>
    /\ tokens = << >>
    /\ tokenMap = << >>
    /\ nextId = 1
    /\ level = InitLevel
    /\ mode = NoMode
    /\ divider = InitDivider
    /\ genLevel = NoLevel
    /\ err = "none"
    /\ errPos = 0
    /\ finalized = << >>
    /\ steps = << >>

\* no value processor is built or merged while tokenize runs
NoRole == 0
Roles == {"A", "B", "C", "AB", "X", "BC", "Y"}
MergeIdle ==
    /\ objs = << >>
    /\ typeLists = << >>
    /\ dicts = << >>
    /\ role = [r \in Roles \cup {"other"} |-> NoRole]

Init ==
    /\ source \in Sources
    /\ \E c \in 1..Len(Configurations) : procs = Configurations[c]
    /\ TokenizeInit
    /\ run = 1
    /\ prev = NoOutcome
    /\ MergeIdle

sourceLength == Len(source)

(***************************************************************************)
(* TokenizerResult.addToken: the token is appended and its entry in the    *)
(* map, keyed by its identity, is set to offset.                           *)
(***************************************************************************)
AddTokenList(list, token) == Append(list, token)
AddTokenMap(map, token, offset) ==
    [k \in DOMAIN map \cup {token.id} |-> IF k = token.id THEN offset ELSE map[k]]

RECURSIVE AddAllMap(_, _, _)
AddAllMap(map, list, offset) ==
    IF list = << >> THEN map
    ELSE AddAllMap(AddTokenMap(map, Head(list), offset), Tail(list), offset)

\* tokenProcessor.process(source, pos) of the processor p, as the loop sees it
Unstated(res) ==
    IndentResult(res.raise, res.pairs, res.made, mode, divider, NoLevel)

Process(p, content, offset, id) ==
    CASE p.kind = "NewLine" ->
            [Unstated(NewLineProcess(content, offset, id)) EXCEPT
                !.isNone = NewLineProcess(content, offset, id).isNone]
      [] p.kind = "ClassicScope" ->
            [Unstated(ClassicScopeProcess("{", "}", content, offset, id)) EXCEPT
                !.isNone = ClassicScopeProcess("{", "}", content, offset, id).isNone]
      [] p.kind = "Comment" ->
            [Unstated(CommentProcess("#", content, offset, id)) EXCEPT
                !.isNone = CommentProcess("#", content, offset, id).isNone]
      [] p.kind = "Consuming" ->
            [Unstated(ConsumingProcess(p.toConsume, content, offset)) EXCEPT
                !.isNone = ConsumingProcess(p.toConsume, content, offset).isNone]
      [] p.kind = "Sequence" ->
            [Unstated(SequenceProcess(content, offset, id)) EXCEPT
                !.isNone = SequenceProcess(content, offset, id).isNone]
      [] p.kind = "Value" ->
            LET res == ValueProcess(p.expressions, p.types, p.constructors,
                                    content, offset, id)
            IN [Unstated(res) EXCEPT !.isNone = res.isNone]
      [] p.kind = "IndentScope" ->
            IndentProcess(level, mode, divider, p.allowMixed, content, offset, id)

\* tokenProcessor.finalizer() of the processor p: the tokens it hands over
Finalizer(p, id) ==
    IF p.kind = "IndentScope" THEN IndentFinalizer(level, id) ELSE << >>

(***************************************************************************)
(* Tokenizer.tokenize, one action per step of its loops.                   *)
(***************************************************************************)
\* res = tokenProcessor.process(source, pos) is None: the for loop goes on
OfferNone ==
    /\ pc = "scan" /\ idx <= Len(procs)
    /\ LET res == Process(procs[idx], source, pos, nextId)
       IN /\ res.isNone
          /\ idx' = idx + 1
          /\ anchor' = pos
    /\ UNCHANGED <<source, procs, pc, pos, processed, pending, tokens, tokenMap,
                   nextId, err, errPos, finalized, steps, indentVars, run, prev, mergeVars>>

\* the call raises as the loop asks res for its first pair: tokenize raises it
OfferRaise ==
    /\ pc = "scan" /\ idx <= Len(procs)
    /\ LET res == Process(procs[idx], source, pos, nextId)
       IN /\ ~res.isNone /\ res.raise # "none"
          /\ pc' = "error"
          /\ err' = res.raise
          /\ anchor' = pos
          /\ mode' = res.mode
          /\ divider' = res.divider
    /\ UNCHANGED <<source, procs, pos, processed, idx, pending, tokens, tokenMap,
                   nextId, errPos, finalized, steps, level, genLevel, run, prev, mergeVars>>

\* res is a pair, or a generator: the inner loop starts on its pairs
OfferPairs ==
    /\ pc = "scan" /\ idx <= Len(procs)
    /\ LET res == Process(procs[idx], source, pos, nextId)
       IN /\ ~res.isNone /\ res.raise = "none"
          /\ pc' = "apply"
          /\ pending' = res.pairs
          /\ nextId' = nextId + res.made
          /\ anchor' = pos
          /\ mode' = res.mode
          /\ divider' = res.divider
          /\ genLevel' = res.newLevel
    /\ UNCHANGED <<source, procs, pos, processed, idx, tokens, tokenMap,
                   err, errPos, finalized, steps, level, run, prev, mergeVars>>

\* one turn of "for token, consumed in res"
ApplyPair ==
    /\ pc = "apply" /\ pending # << >>
    /\ LET token == Head(pending).tok
           consumed == Head(pending).consumed
       IN /\ IF token # NoToken
             THEN /\ tokens' = AddTokenList(tokens, token)
                  /\ tokenMap' = AddTokenMap(tokenMap, token, pos)
             ELSE UNCHANGED <<tokens, tokenMap>>
          /\ pos' = pos + consumed
          /\ processed' = TRUE
          /\ pending' = Tail(pending)
    /\ UNCHANGED <<source, procs, pc, idx, anchor, nextId, err, errPos, finalized,
                   steps, indentVars, run, prev, mergeVars>>

\* LevelAfter of a generator that assigns its level only when it grows
LevelOnlyRaised == IF genLevel # NoLevel /\ genLevel > level THEN genLevel ELSE level

\* the level a generator that ran to its end leaves
LevelAfter == IF genLevel # NoLevel THEN genLevel ELSE level

\* ExhaustBreak without the break: the for loop goes on to the next processor
ExhaustGoesOn ==
    /\ pc = "apply" /\ pending = << >> /\ processed
    /\ level' = LevelAfter
    /\ genLevel' = NoLevel
    /\ steps' = Append(steps, [proc |-> idx, from |-> anchor, to |-> pos])
    /\ processed' = FALSE
    /\ idx' = IF idx < Len(procs) THEN idx + 1 ELSE 1
    /\ pc' = "scan"
    /\ UNCHANGED <<source, procs, pos, anchor, pending, tokens, tokenMap, nextId,
                   err, errPos, finalized, mode, divider, run, prev, mergeVars>>

\* res has no pair left and processed is set: break, and the while loop
\* starts its next round
ExhaustBreak ==
    /\ pc = "apply" /\ pending = << >> /\ processed
    /\ level' = LevelAfter
    /\ genLevel' = NoLevel
    /\ steps' = Append(steps, [proc |-> idx, from |-> anchor, to |-> pos])
    /\ processed' = FALSE
    /\ idx' = 1
    /\ pc' = "scan"
    /\ UNCHANGED <<source, procs, pos, anchor, pending, tokens, tokenMap, nextId,
                   err, errPos, finalized, mode, divider, run, prev, mergeVars>>

\* res had no pair at all: processed is not set and the for loop goes on
ExhaustNext ==
    /\ pc = "apply" /\ pending = << >> /\ ~processed
    /\ level' = LevelAfter
    /\ genLevel' = NoLevel
    /\ idx' = idx + 1
    /\ pc' = "scan"
    /\ UNCHANGED <<source, procs, pos, processed, anchor, pending, tokens, tokenMap,
                   nextId, err, errPos, finalized, steps, mode, divider, run, prev, mergeVars>>

\* the for loop ends without a break: processed is False and the while loop ends
RoundEnd ==
    /\ pc = "scan" /\ idx = Len(procs) + 1
    /\ pc' = "check"
    /\ UNCHANGED <<source, procs, tokVars, indentVars, run, prev, mergeVars>>

\* Unmatched as "if pos < sourceLength": a cursor past the end is let through
UnmatchedBefore == pos < sourceLength

\* if pos != sourceLength
Unmatched == pos # sourceLength

\* if pos != sourceLength: raise TokenizerError, with the pointer of pos
RaiseUnable ==
    /\ pc = "check" /\ Unmatched
    /\ pc' = "error"
    /\ err' = "Unable to tokenize"
    /\ errPos' = pos
    /\ UNCHANGED <<source, procs, pos, processed, idx, anchor, pending, tokens,
                   tokenMap, nextId, finalized, steps, indentVars, run, prev, mergeVars>>

\* StartFinalizers with the first processor left out
StartFinalizersAtSecond ==
    /\ pc = "check" /\ ~Unmatched
    /\ pc' = "finalize"
    /\ idx' = IF procs = << >> THEN 1 ELSE 2
    /\ UNCHANGED <<source, procs, pos, processed, anchor, pending, tokens, tokenMap,
                   nextId, err, errPos, finalized, steps, indentVars, run, prev, mergeVars>>

\* pos == sourceLength: the loop over the finalizers starts
StartFinalizers ==
    /\ pc = "check" /\ ~Unmatched
    /\ pc' = "finalize"
    /\ idx' = 1
    /\ UNCHANGED <<source, procs, pos, processed, anchor, pending, tokens, tokenMap,
                   nextId, err, errPos, finalized, steps, indentVars, run, prev, mergeVars>>

\* one turn of "for tokenProcessor in tokenProcessors: res = finalizer() ..."
Finalize ==
    /\ pc = "finalize" /\ idx <= Len(procs)
    /\ LET res == Finalizer(procs[idx], nextId)
       IN /\ tokens' = tokens \o res
          /\ tokenMap' = AddAllMap(tokenMap, res, sourceLength)
          /\ nextId' = nextId + Len(res)
    /\ finalized' = Append(finalized, idx)
    /\ idx' = idx + 1
    /\ UNCHANGED <<source, procs, pc, pos, processed, anchor, pending, err, errPos,
                   steps, indentVars, run, prev, mergeVars>>

\* result.addToken(EndOfFileToken(), sourceLength); return result
AddEndOfFile ==
    /\ pc = "finalize" /\ idx = Len(procs) + 1
    /\ tokens' = AddTokenList(tokens, EndOfFileToken(nextId))
    /\ tokenMap' = AddTokenMap(tokenMap, EndOfFileToken(nextId), sourceLength)
    /\ nextId' = nextId + 1
    /\ pc' = "done"
    /\ UNCHANGED <<source, procs, pos, processed, idx, anchor, pending, err, errPos,
                   finalized, steps, indentVars, run, prev, mergeVars>>

Next ==
    \/ OfferNone
    \/ OfferRaise
    \/ OfferPairs
    \/ ApplyPair
    \/ ExhaustBreak
    \/ ExhaustNext
    \/ RoundEnd
    \/ RaiseUnable
    \/ StartFinalizers
    \/ Finalize
    \/ AddEndOfFile

Spec == Init /\ [][Next]_vars

(***************************************************************************)
(* Notions the properties below are stated with.                           *)
(***************************************************************************)
Ended == pc \in {"done", "error"}

HasIndent == \E i \in 1..Len(procs) : procs[i].kind = "IndentScope"

\* the number of tokens of list of the given kind
RECURSIVE CountKind(_, _)
CountKind(list, kind) ==
    IF list = << >> THEN 0
    ELSE (IF Head(list).kind = kind THEN 1 ELSE 0) + CountKind(Tail(list), kind)

\* the number of characters the regular expression of processor p matched
\* from offset on: what p recognised at the cursor.  The third alternative
\* of reScope looks at the first character of a line and takes none of it.
Recognised(p, content, offset) ==
    CASE p.kind = "NewLine" -> NewLineEnd(content, offset) - offset
      [] p.kind = "ClassicScope" -> 1
      [] p.kind = "Comment" -> CommentEnd("#", content, offset) - offset
      [] p.kind = "Consuming" -> ConsumingEnd(p.toConsume, content, offset) - offset
      [] p.kind = "Sequence" -> OperatorEnd(content, offset) - offset
      [] p.kind = "Value" ->
            ExpressionEnd(p.expressions[ValueLastIndex(p.expressions, content, offset)],
                          content, offset) - offset
      [] p.kind = "IndentScope" ->
            IF IndentGroup(content, offset) = 3 THEN 0
            ELSE IndentEnd(content, offset) - offset

\* whether processor j, called at offset in the present state, hands the loop
\* at least one pair
Reports(j, offset) ==
    LET res == Process(procs[j], source, offset, nextId)
    IN ~res.isNone /\ res.raise = "none" /\ res.pairs # << >>

(***************************************************************************)
(* C1 (Coverage).  Whenever tokenize returns, every matched step moved the *)
(* cursor by exactly the number of characters its processor recognised at  *)
(* the cursor, the steps follow one another from offset 0 and the last one *)
(* ends at the source length.  The code does not keep this: a step of the  *)
(* indent processor that yields several pairs advances by newLevel once    *)
(* per pair.                                                               *)
(***************************************************************************)
Coverage ==
    pc = "done" =>
        /\ \A i \in 1..Len(steps) :
              /\ steps[i].to - steps[i].from
                    = Recognised(procs[steps[i].proc], source, steps[i].from)
              /\ steps[i].from = (IF i = 1 THEN 0 ELSE steps[i - 1].to)
        /\ (IF steps = << >> THEN 0 ELSE steps[Len(steps)].to) = sourceLength

(***************************************************************************)
(* C2 (Progress).  Every pair a processor hands to the loop has a consumed *)
(* length > 0.  The code does not keep this: a dedent back to depth 0      *)
(* yields its scope-end tokens with newLevel = 0 as the consumed length.   *)
(***************************************************************************)
Progress ==
    pc = "apply" => \A i \in 1..Len(pending) : pending[i].consumed > 0

(***************************************************************************)
(* C3 (Termination).  tokenize ends, by returning or by raising: as long   *)
(* as it has done neither it has a next step, and every step lowers        *)
(* Measure, a natural number bounded by the size of the input (at most     *)
(* 2 * sourceLength matched rounds, each of at most one call and one turn  *)
(* of the inner loop per pair for every processor).  And no round that     *)
(* reported a match leaves both the cursor and the processor state where   *)
(* they were: it moves the cursor forward, or it leaves the cursor and     *)
(* lowers the level of the indent processor.                               *)
(***************************************************************************)
PerCall == sourceLength + 3
PerRound == PerCall * (Len(procs) + 1) + sourceLength + 3
AfterLoop == Len(procs) + 4

Measure ==
    CASE pc = "scan" ->
            AfterLoop + (2 * sourceLength - Len(steps)) * PerRound
                + PerCall * (Len(procs) + 1 - idx) + sourceLength + 2
      [] pc = "apply" ->
            AfterLoop + (2 * sourceLength - Len(steps)) * PerRound
                + PerCall * (Len(procs) + 1 - idx) + Len(pending) + 1
      [] pc = "check" -> Len(procs) + 3
      [] pc = "finalize" -> Len(procs) + 2 - idx
      [] pc \in {"done", "error"} -> 0

RoundAdvances ==
    (pc = "apply" /\ pending = << >> /\ processed)
        => (pos' > anchor \/ (pos' = anchor /\ level' < level))

\* tokenize has a next step: a call of process always answers (None, an
\* error or pairs), and otherwise one of the other steps is enabled
HasNextStep ==
    \/ (pc = "scan" /\ idx <= Len(procs))
    \/ ENABLED (ApplyPair \/ ExhaustBreak \/ ExhaustNext \/ RoundEnd
                   \/ RaiseUnable \/ StartFinalizers \/ Finalize \/ AddEndOfFile)

TerminationState ==
    /\ Measure >= 0
    /\ Len(steps) <= 2 * sourceLength
    /\ ~Ended => HasNextStep

Termination == []TerminationState /\ [][Measure' < Measure /\ RoundAdvances]_vars

\* a run that ended after a round that matched without moving the cursor
TerminationWitness ==
    /\ Ended
    /\ \E i \in 1..Len(steps) : steps[i].to = steps[i].from

(***************************************************************************)
(* C4 (Indent balance).  Whenever tokenize with an indent processor        *)
(* returns, it emitted as many scope-start as scope-end tokens, those of   *)
(* the finalizer counted.  The code does not keep this for an indent width *)
(* above 1: the finalizer yields one scope-end per character of level.     *)
(***************************************************************************)
IndentBalance ==
    (pc = "done" /\ HasIndent)
        => CountKind(tokens, "ScopeStart") = CountKind(tokens, "ScopeEnd")

(***************************************************************************)
(* C5 (All-or-nothing failure).  The finalizers run and a result is        *)
(* returned only with the cursor at the source length; when the loop ends  *)
(* with the cursor elsewhere, tokenize raises "Unable to tokenize" with    *)
(* the pointer of the cursor, an offset at which no processor reports a    *)
(* pair, and no finalizer has run.                                         *)
(***************************************************************************)
AllOrNothing ==
    /\ pc \in {"finalize", "done"} => pos = sourceLength
    /\ pc = "error" => finalized = << >> /\ CountKind(tokens, "EndOfFile") = 0
    /\ (pc = "error" /\ err = "Unable to tokenize") =>
          /\ errPos = pos
          /\ pos # sourceLength
          /\ \A j \in 1..Len(procs) : ~Reports(j, errPos)
    /\ (pc = "check" /\ pos # sourceLength) => ~ENABLED StartFinalizers

\* "12#" with the number and newline processors: the error points at "#"
AllOrNothingWitness ==
    /\ source = <<"1", "2", "#">>
    /\ pc = "error" /\ err = "Unable to tokenize" /\ errPos = 2
    /\ tokens # << >>

(***************************************************************************)
(* C6 (End-of-stream ordering).  No finalizer runs before the scanning     *)
(* loop has ended; the finalizers run once each in the order of the        *)
(* processors; what they hand over is appended after the tokens of         *)
(* scanning and recorded at the source length; and the result ends with    *)
(* the one end-of-file token it holds, recorded at the source length.      *)
(***************************************************************************)
InOrder(n) == [i \in 1..n |-> i]

EndOfStreamState ==
    /\ pc \in {"scan", "apply", "check"} => finalized = << >>
    /\ pc = "finalize" => finalized = InOrder(idx - 1)
    /\ pc # "done" => CountKind(tokens, "EndOfFile") = 0
    /\ pc = "done" =>
          /\ finalized = InOrder(Len(procs))
          /\ tokens # << >>
          /\ tokens[Len(tokens)].kind = "EndOfFile"
          /\ CountKind(tokens, "EndOfFile") = 1
          /\ tokenMap[tokens[Len(tokens)].id] = sourceLength

EndOfStreamStep ==
    pc = "finalize" =>
        /\ Len(tokens') >= Len(tokens)
        /\ SubSeq(tokens', 1, Len(tokens)) = tokens
        /\ \A i \in (Len(tokens) + 1)..Len(tokens') :
              tokenMap'[tokens'[i].id] = sourceLength

EndOfStream == []EndOfStreamState /\ [][EndOfStreamStep]_vars

\* a result whose finalizers closed open scopes after tokens of scanning
EndOfStreamWitness ==
    /\ pc = "done" /\ Len(procs) >= 2 /\ level > 0
    /\ Len(tokens) >= 3
    /\ tokens[Len(tokens) - 1].kind = "ScopeEnd"
    /\ tokens[1].kind = "EndOfLine"

(***************************************************************************)
(* C7 (First-match-wins priority).  While the pairs of processor idx are   *)
(* applied, no processor before idx reports a pair at the offset of the    *)
(* round; tokens and cursor change in the scanning loop only by applying   *)
(* those pairs; after a match the next round starts at the first           *)
(* processor; and a processor that hands over nothing (None, or a          *)
(* generator without a pair) is followed by the next processor, with the   *)
(* cursor and the tokens as they were.                                     *)
(***************************************************************************)
PriorityState ==
    pc = "apply" => \A j \in 1..(idx - 1) : ~Reports(j, anchor)

PriorityStep ==
    /\ (pc \in {"scan", "apply", "check"} /\ (tokens' # tokens \/ pos' # pos))
          => (pc = "apply" /\ pending # << >> /\ idx' = idx /\ anchor' = anchor)
    /\ (pc = "apply" /\ pending = << >> /\ processed)
          => (pc' = "scan" /\ idx' = 1 /\ ~processed')
    /\ (pc = "apply" /\ pending = << >> /\ ~processed)
          => (pc' = "scan" /\ idx' = idx + 1)
    /\ (pc = "scan" /\ pc' = "scan") => (idx' = idx + 1 /\ ~processed')
    /\ (pc = "scan" /\ pc' = "apply") => (anchor' = pos /\ idx' = idx)

FirstMatchWins == []PriorityState /\ [][PriorityStep]_vars

\* a processor after the one that matched would have matched as well
FirstMatchWinsWitness ==
    /\ pc = "apply" /\ processed /\ pending = << >>
    /\ procs[idx].kind # "IndentScope"
    /\ \E j \in (idx + 1)..Len(procs) :
          procs[j].kind # "IndentScope" /\ Reports(j, anchor)

(***************************************************************************)
(* Two calls of tokenize on the same text, the second with a tokenizer and *)
(* processors constructed anew from the same configuration.                *)
(***************************************************************************)
\* the offsets the tokens are looked up to, beside what the tokens hold
TokenView ==
    [i \in 1..Len(tokens) |->
        [kind |-> tokens[i].kind, text |-> tokens[i].text, type |-> tokens[i].type,
         value |-> tokens[i].value, offset |-> tokenMap[tokens[i].id]]]

\* what a call of tokenize gave: the tokens of its result, or its error (the
\* message of an invalid indent multiple names the divider)
Outcome ==
    [pc |-> pc,
     err |-> <<err, IF err = "invalid indent multiply" THEN divider ELSE 0>>,
     errPos |-> errPos,
     tokens |-> IF pc = "done" THEN TokenView ELSE << >>]

\* an indent processor used for a second text as the first run left it
ReusedIndent == [level |-> level, mode |-> mode, divider |-> divider]

\* IndentScopeProcessor.__init__: the fields of a new instance
NewIndent == [level |-> InitLevel, mode |-> NoMode, divider |-> InitDivider]

Restart ==
    /\ Ended /\ run = 1
    /\ run' = 2
    /\ prev' = Outcome
    /\ pc' = "scan"
    /\ pos' = 0
    /\ processed' = FALSE
    /\ idx' = 1
    /\ anchor' = 0
    /\ pending' = << >>
    /\ tokens' = << >>
    /\ tokenMap' = << >>
    /\ nextId' = 1
    /\ level' = NewIndent.level
    /\ mode' = NewIndent.mode
    /\ divider' = NewIndent.divider
    /\ genLevel' = NoLevel
    /\ err' = "none"
    /\ errPos' = 0
    /\ finalized' = << >>
    /\ steps' = << >>
    /\ UNCHANGED <<source, procs, mergeVars>>

NextTwice == Next \/ Restart

SpecTwice == Init /\ [][NextTwice]_vars

HasProcessor(p) == \E i \in 1..Len(procs) : procs[i] = p

MixedIndentFirstLine ==
    ( /\ source = <<TAB, "x", LF, SP, SP, SP, SP, "y", LF>>
      /\ HasProcessor(IndentScopeProcessor(FALSE))
      /\ HasProcessor(NewLineProcessor) /\ HasProcessor(Word) /\ HasProcessor(White)
      /\ Ended )
        => (pc = "error" /\ err = "mixed indent")

(***************************************************************************)
(* Value processors as objects, and their merge ValueProcessor.__or__.     *)
(* An object holds its regex (the expressions, left to right) and refers   *)
(* to a list object (__types) and a dict object (__constructors); left and *)
(* right are the operands it was merged from (NoRole for none).            *)
(***************************************************************************)
\* the (expression, type) pairs and constructors value processors are built of
Definitions ==
    << [valueExpressions |-> << <<"float", "float">>, <<"int", "int">> >>,
        constructors |-> EmptyConstructors],
       [valueExpressions |-> << <<"bool", "bool">> >>,
        constructors |-> [EmptyConstructors EXCEPT !["bool"] = "lowerIsTrue"]],
       [valueExpressions |-> << <<"digit", "str">> >>,
        constructors |-> EmptyConstructors],
       [valueExpressions |-> << <<"bool", "bool">>, <<"int", "float">> >>,
        constructors |-> EmptyConstructors] >>

ValueObject(regex, types, constructors, left, right) ==
    [regex |-> regex, types |-> types, constructors |-> constructors,
     left |-> left, right |-> right]

\* newRegex = f"{self.__regex.pattern}|{other.__regex.pattern}"
JoinRegex(selfRegex, otherRegex) == selfRegex \o otherRegex

\* newObj.__types.extend(other.__types)
ExtendTypes(selfTypes, otherTypes) == selfTypes \o otherTypes

\* newObj.__constructors.update(other.__constructors)
UpdateConstructors(selfConstructors, otherConstructors) ==
    [tp \in Types |-> IF otherConstructors[tp] # NoConstructor
                      THEN otherConstructors[tp] ELSE selfConstructors[tp]]

\* ValueProcessor.__init__ of definition d: a new object with a list and a
\* dict of its own
Construct_(d, r) ==
    LET def == Definitions[d]
        built == ValueProcessor(def.valueExpressions, def.constructors)
    IN /\ objs' = Append(objs, ValueObject(built.expressions, Len(typeLists) + 1,
                                           Len(dicts) + 1, NoRole, NoRole))
       /\ typeLists' = Append(typeLists, built.types)
       /\ dicts' = Append(dicts, built.constructors)
       /\ role' = [role EXCEPT ![r] = Len(objs) + 1]

\* self | other, its result given the role r: newObj = copy(self) shares the
\* list and the dict of self, which are extended and updated in place
Or(self, other, r) ==
    LET l == objs[self].types
        d == objs[self].constructors
    IN /\ objs' = Append(objs, ValueObject(
                     JoinRegex(objs[self].regex, objs[other].regex),
                     l, d, self, other))
       /\ typeLists' = [typeLists EXCEPT
                           ![l] = ExtendTypes(@, typeLists[objs[other].types])]
       /\ dicts' = [dicts EXCEPT
                       ![d] = UpdateConstructors(@, dicts[objs[other].constructors])]
       /\ role' = [role EXCEPT ![r] = Len(objs) + 1]

MergeRoles == Roles \cup {"other"}

InitMerge ==
    /\ source = << >>
    /\ procs = << >>
    /\ TokenizeInit
    /\ run = 1
    /\ prev = NoOutcome
    /\ objs = << >>
    /\ typeLists = << >>
    /\ dicts = << >>
    /\ role = [r \in MergeRoles |-> NoRole]

tokenizeVars == <<source, procs, pc, tokVars, indentVars, run, prev>>

Built(r) == role[r] # NoRole

\* A, B and C are constructed, in this order
ConstructOperand ==
    /\ \E r \in {"A", "B", "C"} :
          /\ ~Built(r)
          /\ r = "B" => Built("A")
          /\ r = "C" => Built("B")
          /\ \E d \in 1..Len(Definitions) : Construct_(d, r)
    /\ UNCHANGED tokenizeVars

MergeAB ==
    /\ Built("C") /\ ~Built("AB")
    /\ Or(role["A"], role["B"], "AB")
    /\ UNCHANGED tokenizeVars

MergeABC ==
    /\ Built("AB") /\ ~Built("X")
    /\ Or(role["AB"], role["C"], "X")
    /\ UNCHANGED tokenizeVars

MergeBC ==
    /\ Built("C") /\ ~Built("BC")
    /\ Or(role["B"], role["C"], "BC")
    /\ UNCHANGED tokenizeVars

MergeABC2 ==
    /\ Built("BC") /\ ~Built("Y")
    /\ Or(role["A"], role["BC"], "Y")
    /\ UNCHANGED tokenizeVars

\* one more merge, of any two of the objects, at any time
MergeOther ==
    /\ Built("C") /\ ~Built("other")
    /\ \E self \in 1..Len(objs), other \in 1..Len(objs) : Or(self, other, "other")
    /\ UNCHANGED tokenizeVars

NextMerge ==
    \/ ConstructOperand
    \/ MergeAB
    \/ MergeABC
    \/ MergeBC
    \/ MergeABC2
    \/ MergeOther

SpecMerge == InitMerge /\ [][NextMerge]_vars

\* the texts the merged processors are asked to classify
MergeInputs ==
    { <<"1">>, <<"1", ".", "5">>, <<".", "5", "0">>, <<"-", "1">>,
      <<"t", "r", "u", "e">>, <<"F", "a", "l", "s", "e">>, <<"x", "2">> }

\* o.process(content, offset)
Classify(o, content, offset) ==
    ValueProcess(objs[o].regex, typeLists[objs[o].types],
                 dicts[objs[o].constructors], content, offset, 1)

(***************************************************************************)
(* C9 (Merge associativity).  (A | B) | C and A | (B | C) classify every   *)
(* text alike: at every offset both report no match, or both hand over a   *)
(* token of the same consumed length, type and value; and the alternative  *)
(* that wins in either is the first one that matches in the expressions of *)
(* A, B and C put one after the other.                                     *)
(***************************************************************************)
Flattened ==
    objs[role["A"]].regex \o objs[role["B"]].regex \o objs[role["C"]].regex

MergeAssociative ==
    (Built("X") /\ Built("Y")) =>
        \A content \in MergeInputs : \A offset \in 0..Len(content) :
            LET x == Classify(role["X"], content, offset)
                y == Classify(role["Y"], content, offset)
            IN /\ x = y
               /\ x.isNone \/ x.pairs # << >>
               /\ ValueLastIndex(objs[role["X"]].regex, content, offset)
                     = ValueLastIndex(Flattened, content, offset)
               /\ ValueLastIndex(objs[role["Y"]].regex, content, offset)
                     = ValueLastIndex(Flattened, content, offset)

\* what the two merges do share whatever was merged before: they refer to
\* the list and the dict of A and have the same expressions, so that neither
\* ever answers differently from the other, a raised error included
MergedAlike ==
    (Built("X") /\ Built("Y")) =>
        /\ objs[role["X"]].regex = objs[role["Y"]].regex
        /\ objs[role["X"]].types = objs[role["Y"]].types
        /\ objs[role["X"]].constructors = objs[role["Y"]].constructors
        /\ \A content \in MergeInputs : \A offset \in 0..Len(content) :
               Classify(role["X"], content, offset)
                  = Classify(role["Y"], content, offset)

(***************************************************************************)
(* C11 (Finalizer close count).  The finalizer of the indent processor     *)
(* hands over exactly level ScopeEnd tokens, level being the stored count  *)
(* of indent characters, and none when level is 0.  "a\n  b\n    c\n  d\n" *)
(* with the indent, newline and word processors has emitted scope-start,   *)
(* scope-start, scope-end when the scanning loop ends and has two more     *)
(* scope-end tokens, those of the finalizer, when tokenize returns.        *)
(***************************************************************************)
ScopeKinds(list) ==
    LET scopes == SelectSeq(list, LAMBDA t : t.kind \in {"ScopeStart", "ScopeEnd"})
    IN [i \in 1..Len(scopes) |-> scopes[i].kind]

FinalizerStep ==
    (pc = "finalize" /\ idx <= Len(procs) /\ procs[idx].kind = "IndentScope")
        => /\ Len(tokens') = Len(tokens) + level
           /\ SubSeq(tokens', 1, Len(tokens)) = tokens
           /\ \A i \in (Len(tokens) + 1)..Len(tokens') : tokens'[i].kind = "ScopeEnd"

FinalizerScenario ==
    ( /\ source = <<"a", LF, SP, SP, "b", LF, SP, SP, SP, SP, "c", LF, SP, SP, "d", LF>>
      /\ procs = <<IndentScopeProcessor(FALSE), NewLineProcessor, Word>> )
        => /\ pc = "check" =>
                 ScopeKinds(tokens) = <<"ScopeStart", "ScopeStart", "ScopeEnd">>
           /\ pc = "done" =>
                 /\ divider = 2 /\ level = 2
                 /\ ScopeKinds(tokens) = <<"ScopeStart", "ScopeStart", "ScopeEnd",
                                           "ScopeEnd", "ScopeEnd">>

FinalizerCloseCount == []FinalizerScenario /\ [][FinalizerStep]_vars

\* the scenario has returned, its finalizer having closed twice
FinalizerCloseCountWitness ==
    /\ source = <<"a", LF, SP, SP, "b", LF, SP, SP, SP, SP, "c", LF, SP, SP, "d", LF>>
    /\ procs = <<IndentScopeProcessor(FALSE), NewLineProcessor, Word>>
    /\ pc = "done" /\ level = 2
    /\ Len(tokens) >= 3 /\ tokens[Len(tokens) - 1].kind = "ScopeEnd"

(***************************************************************************)
(* C12 (Position mapping).  After every emission each entry of the token   *)
(* sequence has an entry of its own in the map keyed by identity (as many  *)
(* entries as tokens), and an entry emitted at another cursor offset than  *)
(* the one just emitted is looked up to another offset than it.  The code  *)
(* does not keep this: the indent generator yields one token object once   *)
(* per indent unit, so that the sequence holds it several times while the  *)
(* map holds one entry for it, set to the offset of its last emission.     *)
(***************************************************************************)
Lookup(map, token) == map[token.id]

MappingEntries(list, map) ==
    /\ \A i \in 1..Len(list) : list[i].id \in DOMAIN map
    /\ Cardinality(DOMAIN map) = Len(list)

MappingStep ==
    (pc = "apply" /\ pending # << >> /\ Head(pending).tok # NoToken)
        => \A i \in 1..Len(tokens) :
              Lookup(tokenMap, tokens[i]) # pos
                 => Lookup(tokenMap', tokens[i]) # Lookup(tokenMap', Head(pending).tok)

PositionMapping == [][MappingEntries(tokens', tokenMap') /\ MappingStep]_vars

(***************************************************************************)
(* C13 (Shared anchor offset).  Every token of one matched step is         *)
(* recorded with the cursor value the round started with: the recorded     *)
(* offset does not move between the tokens of a step, and advancing the    *)
(* cursor leaves the offsets recorded for the step alone.  The code does   *)
(* not keep this: addToken is called with pos, and pos has been advanced   *)
(* by the consumed lengths of the pairs taken before.                      *)
(***************************************************************************)
SharedAnchorStep ==
    (pc = "apply" /\ pending # << >>)
        => /\ Head(pending).tok # NoToken
                => Lookup(tokenMap', Head(pending).tok) = anchor
           /\ \A i \in 1..Len(tokens) :
                 Lookup(tokenMap, tokens[i]) = anchor
                    => Lookup(tokenMap', tokens[i]) = anchor

SharedAnchor == [][SharedAnchorStep]_vars

(***************************************************************************)
(* C14 (Depth-change step).  When the line the indent processor matched    *)
(* has another depth than the current one (and its indent character is not *)
(* refused as mixed): if the difference is not a multiple of the inferred  *)
(* width the call raises the invalid-multiple error and no token is        *)
(* emitted; otherwise it yields exactly |difference| / width tokens, all   *)
(* scope-start for a greater depth and all scope-end for a smaller one,    *)
(* and once they are taken the current depth is the new depth.             *)
(***************************************************************************)
\* the call of process the loop is about to make is one of the indent processor
IndentCall == pc = "scan" /\ idx <= Len(procs) /\ procs[idx].kind = "IndentScope"

\* the depth of the line matched at the cursor
NewDepth ==
    IF IndentGroup(source, pos) = 3 THEN 0 ELSE IndentEnd(source, pos) - pos

\* the indent character of the line is not the locked one
OtherKind ==
    IndentGroup(source, pos) \in {1, 2} /\ mode # NoMode /\ mode # IndentGroup(source, pos)

\* the width the multiple check is made with: that of the first indented
\* line seen while no unit is locked
InferredWidth ==
    IF IndentGroup(source, pos) \in {1, 2} /\ mode = NoMode THEN NewDepth ELSE divider

DepthChangeCall ==
    (IndentCall /\ IndentGroup(source, pos) # 0 /\ ~OtherKind /\ NewDepth # level)
        => LET res == Process(procs[idx], source, pos, nextId)
               difference == Abs(level - NewDepth)
           IN /\ InferredWidth > 0
              /\ IF difference % InferredWidth # 0
                 THEN res.raise = "invalid indent multiply" /\ res.pairs = << >>
                 ELSE /\ res.raise = "none"
                      /\ Len(res.pairs) = difference \div InferredWidth
                      /\ \A i \in 1..Len(res.pairs) :
                            res.pairs[i].tok.kind
                               = (IF NewDepth > level THEN "ScopeStart" ELSE "ScopeEnd")
                      /\ res.newLevel = NewDepth

DepthChangeStep ==
    /\ (IndentCall /\ pc' = "error") => tokens' = tokens
    /\ (IndentCall /\ pc' = "apply" /\ genLevel' # NoLevel)
          => /\ genLevel' = NewDepth
             /\ \A i \in 1..Len(pending') : pending'[i].tok # NoToken
    /\ (pc = "apply" /\ pending = << >> /\ genLevel # NoLevel) => level' = genLevel

DepthChange == []DepthChangeCall /\ [][DepthChangeStep]_vars

\* a step of two units has been taken: the depth went from 1 to 3
DepthChangeWitness ==
    /\ pc = "scan" /\ steps # << >>
    /\ procs[steps[Len(steps)].proc].kind = "IndentScope"
    /\ level = 3 /\ divider = 1
    /\ ScopeKinds(tokens) = <<"ScopeStart", "ScopeStart", "ScopeStart">>

(***************************************************************************)
(* C15 (Tolerated mixing).  With an indent processor that allows mixing, a *)
(* matched line whose depth is the current nonzero depth does not raise    *)
(* the mixed-indent error, whichever indent character it uses: the call    *)
(* yields no token and leaves the unit unset.  Without it, a match with    *)
(* the other character than the locked one raises the mixed-indent error   *)
(* and a locked unit stays locked.  The code does not keep the first: the  *)
(* comparison of the indent character with the locked unit comes before    *)
(* the comparison of the depths and does not look at allowMixed.           *)
(***************************************************************************)
SameDepthCall ==
    /\ IndentCall /\ IndentGroup(source, pos) \in {1, 2}
    /\ NewDepth = level /\ level # 0

ToleratedMixing ==
    /\ (SameDepthCall /\ procs[idx].allowMixed)
          => LET res == Process(procs[idx], source, pos, nextId)
             IN /\ res.raise = "none"
                /\ \A i \in 1..Len(res.pairs) : res.pairs[i].tok = NoToken
                /\ res.mode = NoMode
    /\ (IndentCall /\ ~procs[idx].allowMixed)
          => LET res == Process(procs[idx], source, pos, nextId)
             IN /\ OtherKind => res.raise = "mixed indent"
                /\ mode # NoMode => res.mode = mode

(***************************************************************************)
(* C16 (Indent trigger alternatives).  The indent processor matches a line *)
(* feed followed at once by tabs, by spaces or by one character that is no *)
(* white space.  A line feed followed by a line feed or a carriage return, *)
(* an empty line, is no match: the call yields nothing and the current     *)
(* depth stays as it is.  The code does not keep this: [^\t ] of reScope   *)
(* takes a line feed or a carriage return like any other character, and    *)
(* an empty line inside an indented block closes the block.                *)
(***************************************************************************)
\* the line that begins where reScope is matched from is empty
EmptyLine(content, offset) ==
    /\ At(content, IndentStart(offset)) = LF
    /\ At(content, IndentStart(offset) + 1) \in {LF, CR}

EmptyLineIsNoMatch ==
    (IndentCall /\ EmptyLine(source, pos))
        => LET res == Process(procs[idx], source, pos, nextId)
           IN /\ res.raise = "none" /\ res.pairs = << >>
              /\ res.newLevel \in {NoLevel, level}

(***************************************************************************)
(* TokenMappingView: the line number, the line text and the column of an   *)
(* offset of the source.                                                   *)
(***************************************************************************)
NotFound == -1

\* str.rfind("\n", 0, end): the greatest offset below end that holds a line
\* feed, NotFound for none
RFindLF(content, end) ==
    LET hits == {i \in 0..(Len(content) - 1) : i < end /\ At(content, i) = LF}
    IN IF hits = {} THEN NotFound ELSE CHOOSE i \in hits : \A j \in hits : j <= i

\* str.find("\n", start): the least offset from start on that holds a line
\* feed, NotFound for none
FindLF(content, start) ==
    LET hits == {i \in 0..(Len(content) - 1) : i >= start /\ At(content, i) = LF}
    IN IF hits = {} THEN NotFound ELSE CHOOSE i \in hits : \A j \in hits : i <= j

\* content[left : right]: a negative right counts from the end
PySlice(content, left, right) ==
    LET to == IF right < 0 THEN Max(Len(content) + right, 0) ELSE right
    IN IF left < to THEN Slice(content, left, to) ELSE << >>

\* source.count("\n", 0, offset) + 1
lineNumber(content, offset) ==
    Cardinality({i \in 0..(Len(content) - 1) : i < offset /\ At(content, i) = LF}) + 1

\* source[left : right] with left = rfind + 1 and right = find
line(content, offset) ==
    PySlice(content, RFindLF(content, offset) + 1, FindLF(content, offset))

\* offset - left
lineOffset(content, offset) == offset - (RFindLF(content, offset) + 1)

(***************************************************************************)
(* C17 (Position view line text).  For every offset in 0..len(source), the *)
(* line text of the view is the text from the nearest line feed before the *)
(* offset (or the start of the source) to the nearest line feed at or      *)
(* after it (or the end of the source): on a last line without a line feed *)
(* it runs to the end of the source.  The column is the offset minus the   *)
(* start of that line and the line number is 1 plus the number of line     *)
(* feeds before the offset.  The code does not keep the second: find       *)
(* answers -1 when no line feed follows, and source[left : -1] leaves the  *)
(* last character of the source out.                                       *)
(***************************************************************************)
\* the line around offset begins at from and ends before to
LineBounds(content, offset, from, to) ==
    /\ from <= offset /\ offset <= to
    /\ \A i \in from..(to - 1) : At(content, i) # LF
    /\ from = 0 \/ At(content, from - 1) = LF
    /\ to = Len(content) \/ At(content, to) = LF

PositionView ==
    Ended =>
        \A offset \in 0..sourceLength :
            \E from \in 0..offset, to \in offset..sourceLength :
                /\ LineBounds(source, offset, from, to)
                /\ line(source, offset) = Slice(source, from, to)
                /\ lineOffset(source, offset) = offset - from
                /\ lineNumber(source, offset)
                      = 1 + Cardinality({i \in 0..(offset - 1) : At(source, i) = LF})

(***************************************************************************)
(* C18 (Merge leaves its operands unchanged).  After any merges, the type  *)
(* table and the converter table of every constructed value processor are  *)
(* what its constructor made them, so that it classifies and converts      *)
(* every text as before; and a merge with a constructed processor on the   *)
(* right gives each alternative of that processor its own type.  The code  *)
(* does not keep this: copy(self) is shallow, and the merged processor     *)
(* extends and updates the list and the dict of its left operand.          *)
(***************************************************************************)
\* the value processor a constructed object was when ValueProcessor.__init__
\* returned it
AsConstructed(o) ==
    LET d == CHOOSE d \in 1..Len(Definitions) :
                 ValueProcessor(Definitions[d].valueExpressions,
                                Definitions[d].constructors).expressions = objs[o].regex
    IN ValueProcessor(Definitions[d].valueExpressions, Definitions[d].constructors)

Constructed(o) == objs[o].left = NoRole

OperandsUnchanged ==
    /\ \A o \in 1..Len(objs) :
          Constructed(o) =>
              /\ objs[o].regex = AsConstructed(o).expressions
              /\ typeLists[objs[o].types] = AsConstructed(o).types
              /\ dicts[objs[o].constructors] = AsConstructed(o).constructors
              /\ \A content \in MergeInputs : \A offset \in 0..Len(content) :
                    Classify(o, content, offset)
                       = ValueProcess(AsConstructed(o).expressions, AsConstructed(o).types,
                                      AsConstructed(o).constructors, content, offset, 1)
    /\ \A o \in 1..Len(objs) :
          (~Constructed(o) /\ Constructed(objs[o].right)) =>
              \A j \in 1..Len(objs[objs[o].right].regex) :
                  typeLists[objs[o].types][Len(objs[objs[o].left].regex) + j]
                     = AsConstructed(objs[o].right).types[j]

(***************************************************************************)
(* C19 (Indent state).  Between the calls of process of an indent          *)
(* processor, with or without allowed mixing, the current depth is >= 0,   *)
(* and a nonzero depth goes with a width > 0 that divides it; the multiple *)
(* check never divides by 0.  The code does not keep the second: after a   *)
(* same-depth line has released the unit, the next indented line sets the  *)
(* width to its own depth before the multiple check, and when that check   *)
(* raises the depth is left as it was beside the new width.                *)
(***************************************************************************)
IndentState ==
    (HasIndent /\ pc # "apply") =>
        /\ level >= 0
        /\ level # 0 => (divider > 0 /\ level % divider = 0)
        /\ err # "ZeroDivisionError"

(***************************************************************************)
(* C20 (Cursor bounds).  In every state of tokenize the cursor is within   *)
(* 0..len(source), and the offsets recorded for the tokens are within      *)
(* 0..len(source) and do not decrease along the token sequence.  The code  *)
(* does not keep the first: a step of the indent processor over several    *)
(* units adds newLevel to the cursor once per unit, which takes it past    *)
(* the end of the source.                                                  *)
(***************************************************************************)
CursorBounds ==
    /\ 0 <= pos /\ pos <= sourceLength
    /\ \A i \in 1..Len(tokens) :
          /\ tokens[i].id \in DOMAIN tokenMap
          /\ 0 <= Lookup(tokenMap, tokens[i])
          /\ Lookup(tokenMap, tokens[i]) <= sourceLength
    /\ \A i \in 1..Len(tokens) : \A j \in i..Len(tokens) :
          Lookup(tokenMap, tokens[i]) <= Lookup(tokenMap, tokens[j])

=============================================================================
